---- MODULE Spec2Model ----
(***************************************************************************)
(* Model of app-usage-tracker: the sampling loop track_processes           *)
(* (src/src/main.rs), the title classification and upsert of get_process,  *)
(* the aggregate read get_usage_data_from_db and the idle query            *)
(* get_last_input (src/src/active_window_tracker.rs).                      *)
(*                                                                         *)
(* Strings are sequences of one-character strings.  A u32 is a pair        *)
(* <<hi, lo>> of 16-bit halves, so that 32-bit arithmetic is exact.        *)
(***************************************************************************)
EXTENDS Integers, Sequences, FiniteSets, TLC

\* ------------------------------------------------------------------ bounds
\* Time (in seconds) stops advancing at MaxTime.
MaxTime == 9
\* The foreground window exists until MaxMerges seconds have been recorded.
MaxMerges == 3
\* Longest generated title of the classifier specification.
MaxLen == 5

\* --------------------------------------------------------------- constants
IDLE_CHECK_SECS == 5
IDLE_PERIOD == 30
\* Duration::from_secs(1) and Duration::from_secs(60)
SamplePeriod == 1
GraphPeriod == 60
\* `let duration = 1` bound to ?3 of the upsert
DurationParam == 1
\* base of the two halves of a u32
Half == 2^16
\* Duration::from_millis / Duration::as_secs
MillisPerSec == 1000

\* ------------------------------------------------------------ u32 (ticks)
U32(n) == <<n \div Half, n % Half>>
U32Max == <<Half - 1, Half - 1>>

\* a < b on u32
Lt32(a, b) == a[1] < b[1] \/ (a[1] = b[1] /\ a[2] < b[2])

\* a - b modulo 2^32 (the release build's wrapping subtraction)
WrappingSub32(a, b) ==
    LET borrow == IF a[2] < b[2] THEN 1 ELSE 0
    IN  <<(a[1] - b[1] - borrow) % Half, (a[2] - b[2]) % Half>>

\* get_last_input: tick_count - last_input_info.dwTime, as milliseconds
get_last_input(tick_count, dwTime) == WrappingSub32(tick_count, dwTime)

\* `tick_count - dwTime` panics ('attempt to subtract with overflow') in a
\* build with overflow checks
SubOverflows(tick_count, dwTime) == Lt32(tick_count, dwTime)

\* Duration::from_millis(ms).as_secs(): whole seconds, ms \div 1000, computed
\* on the halves: hi*65536 + lo = hi*65*1000 + hi*536 + lo
as_secs(ms) ==
    ms[1] * (Half \div MillisPerSec)
      + (ms[1] * (Half % MillisPerSec) + ms[2]) \div MillisPerSec

\* ----------------------------------------------------------------- strings
IsDelimDashOnly(c) == c = "-"

\* |c| c == '-' || c == '|'
IsDelim(c) == c = "-" \/ c = "|"
IsSpace(c) == c = " "

RECURSIVE Split(_)
\* str::split(|c| c == '-' || c == '|'): the pieces between delimiters, empty
\* pieces included; the empty string gives one empty piece
Split(s) ==
    IF s = <<>> THEN << <<>> >>
    ELSE LET rest == Split(Tail(s))
         IN  IF IsDelim(Head(s))
             THEN << <<>> >> \o rest
             ELSE << <<Head(s)>> \o Head(rest) >> \o Tail(rest)

RECURSIVE TrimStart(_)
TrimStart(s) ==
    IF s # <<>> /\ IsSpace(Head(s)) THEN TrimStart(Tail(s)) ELSE s

RECURSIVE TrimEnd(_)
TrimEnd(s) ==
    IF s # <<>> /\ IsSpace(s[Len(s)]) THEN TrimEnd(SubSeq(s, 1, Len(s) - 1)) ELSE s

\* str::trim
Trim(s) == TrimEnd(TrimStart(s))

RECURSIVE Join(_, _)
\* [&str]::join(sep)
Join(parts, sep) ==
    IF parts = <<>> THEN <<>>
    ELSE IF Len(parts) = 1 THEN parts[1]
    ELSE parts[1] \o sep \o Join(Tail(parts), sep)

\* the separator " - "
Sep == <<" ", "-", " ">>

\* parts[..parts.len() - 1] panics when parts is empty (usize underflow)
ClassifyPanics(window_title) == Len(Split(window_title)) = 0

\* parts.last().unwrap_or(&"").trim()
AppName(window_title) ==
    LET parts == Split(window_title)
    IN  Trim(IF parts = <<>> THEN <<>> ELSE parts[Len(parts)])

\* parts[..parts.len() - 1].join(" - ").trim()
Task(window_title) ==
    LET parts == Split(window_title)
    IN  Trim(Join(SubSeq(parts, 1, Len(parts) - 1), Sep))

\* ------------------------------------------------------------------- dates
\* the UTC days the run can see, in order
Dates == << [y |-> 2024, m |-> 12, d |-> 31], [y |-> 2025, m |-> 1, d |-> 1] >>

Digit(n) == CASE n = 0 -> "0" [] n = 1 -> "1" [] n = 2 -> "2" [] n = 3 -> "3"
              [] n = 4 -> "4" [] n = 5 -> "5" [] n = 6 -> "6" [] n = 7 -> "7"
              [] n = 8 -> "8" [] n = 9 -> "9"

\* usage_date.format("%Y-%m-%d")
FormatDate(date) ==
    << Digit((date.y \div 1000) % 10), Digit((date.y \div 100) % 10),
       Digit((date.y \div 10) % 10), Digit(date.y % 10), "-",
       Digit((date.m \div 10) % 10), Digit(date.m % 10), "-",
       Digit((date.d \div 10) % 10), Digit(date.d % 10) >>

\* ------------------------------------------------------------------- store
\* The table app_usage: the set of its rows (the id column is never read).
Key(row) == <<row.task, row.app_name, row.usage_date>>

\* UNIQUE (task, app_name, usage_date)
UniqueKeys(table) ==
    \A a, b \in table : Key(a) = Key(b) => a = b

\* the upsert with DO UPDATE SET duration = ?3
UpsertOverwrite(table, task, app_name, duration, usage_date) ==
    {row \in table : Key(row) # <<task, app_name, usage_date>>}
      \cup {[task |-> task, app_name |-> app_name, duration |-> duration,
              usage_date |-> usage_date]}

\* the upsert on a table whose uniqueness constraint leaves out usage_date
UpsertIgnoreDate(table, task, app_name, duration, usage_date) ==
    LET hit == {row \in table : row.task = task /\ row.app_name = app_name}
    IN  IF hit = {}
        THEN table \cup {[task |-> task, app_name |-> app_name,
                          duration |-> duration, usage_date |-> usage_date]}
        ELSE (table \ hit)
               \cup {[row EXCEPT !.duration = @ + duration] : row \in hit}

\* INSERT ... ON CONFLICT(task, app_name, usage_date)
\*            DO UPDATE SET duration = duration + ?3
Upsert(table, task, app_name, duration, usage_date) ==
    LET hit == {row \in table : Key(row) = <<task, app_name, usage_date>>}
    IN  IF hit = {}
        THEN table \cup {[task |-> task, app_name |-> app_name,
                          duration |-> duration, usage_date |-> usage_date]}
        ELSE (table \ hit)
               \cup {[row EXCEPT !.duration = @ + duration] : row \in hit}

RECURSIVE SumDuration(_)
\* SUM(duration) over a group of rows
SumDuration(rows) ==
    IF rows = {} THEN 0
    ELSE LET row == CHOOSE r \in rows : TRUE
         IN  row.duration + SumDuration(rows \ {row})

\* the query without SUM and GROUP BY: the HashMap keeps one row per label
get_usage_data_ungrouped(table) ==
    [a \in {row.app_name : row \in table} |->
        (CHOOSE row \in table : row.app_name = a).duration]

\* SELECT app_name, SUM(duration) FROM app_usage GROUP BY app_name,
\* collected into a HashMap
get_usage_data_from_db(table) ==
    [a \in {row.app_name : row \in table} |->
        SumDuration({row \in table : row.app_name = a})]

\* ------------------------------------------------------------------ inputs
\* what GetTickCount and GetLastInputInfo can return (milliseconds)
TickCounts == {U32(31000), U32(31999), U32(32000)}
LastInputs == {U32(1000), U32(32000)}

\* what get_active_window can return: process ids and window titles
Pids == {0, 7}
Titles == { <<"a", " ", "-", " ", "N">> }
\* a window with no text exists only with pid 0 (no foreground window)
Windows == {<<0, <<>> >>} \cup (Pids \X Titles)

\* tables the database file can hold when the program starts
InitialTables ==
    { {},
      { [task |-> <<>>, app_name |-> <<"N">>, duration |-> 2,
         usage_date |-> FormatDate(Dates[1])] } }

\* ------------------------------------------------------------------- state
VARIABLES
    pc,              \* where track_processes is
    now,             \* seconds since start
    interval,        \* next deadline of the 1 s interval
    graph_interval,  \* next deadline of the 60 s interval
    i,               \* sample ticks since the last idle check
    idle,            \* the idle flag
    app_usage,       \* the table app_usage
    usage_graph,     \* the totals drawn in usage_graph.png
    ctrl_c,          \* the ctrl_c() future of the current select
    today,           \* index in Dates of the current UTC day
    shutdown,        \* where the loop was when Ctrl-C was raised ("no": not yet)
    lastTurn,        \* what the last completed turn did
    merges,          \* per key, the upserts executed so far
    table0,          \* the table at start
    finalRenders,    \* final renders completed
    ticks,           \* sample ticks completed
    window_title,    \* classifier specification: the title
    labels,          \* classifier specification: the labels computed
    reading,         \* elapsed specification: what the system calls return
    last_input       \* elapsed specification: what get_last_input returns

vars == <<pc, now, interval, graph_interval, i, idle, app_usage, usage_graph,
          ctrl_c, today, shutdown, lastTurn, merges, table0,
          finalRenders, ticks, window_title, labels, reading, last_input>>

loopVars == <<pc, now, interval, graph_interval, i, idle, app_usage,
              usage_graph, ctrl_c, today, shutdown, lastTurn,
              merges, table0, finalRenders, ticks>>

classifierVars == <<window_title, labels>>

elapsedVars == <<reading, last_input>>

NoTurn == [kind |-> "none", checked |-> FALSE, elapsed |-> U32(0),
           idle_before |-> FALSE, probed |-> FALSE, window_pid |-> 0,
           called |-> FALSE, classified |-> FALSE, merged |-> FALSE,
           query_ok |-> TRUE, failure |-> "none"]

NoLabels == [state |-> "unset", app_name |-> <<>>, task |-> <<>>]

NoReading == [tick_count |-> U32(0), dwTime |-> U32(0),
              overflow_checks |-> FALSE, timing |-> "steady"]

NoElapsed == [state |-> "unset", millis |-> U32(0)]

Terminated == {"done", "killed", "panicked"}

LoopInit ==
    /\ pc = "select"
    /\ now = 0
    /\ interval = 0
    /\ graph_interval = 0
    /\ i = 0
    /\ idle = FALSE
    /\ app_usage \in InitialTables
    /\ table0 = app_usage
    /\ usage_graph = "none"
    /\ ctrl_c = "none"
    /\ today = 1
    /\ shutdown = "no"
    /\ lastTurn = NoTurn
    /\ merges = << >>
    /\ finalRenders = 0
    /\ ticks = 0

Init ==
    /\ LoopInit
    /\ window_title = <<>>
    /\ labels = NoLabels
    /\ reading = NoReading
    /\ last_input = NoElapsed

\* ------------------------------------------------------------ get_process
\* The outcome of get_process(conn, window_title) when its own call of
\* get_active_window returns pid and the INSERT succeeds or not.
get_process(table, title, pid, db_ok, date) ==
    IF pid = 0
    THEN [panicked |-> FALSE, table |-> table, classified |-> FALSE,
          merged |-> FALSE, key |-> <<>>]
    ELSE IF ClassifyPanics(title)
    THEN [panicked |-> TRUE, table |-> table, classified |-> TRUE,
          merged |-> FALSE, key |-> <<>>]
    ELSE IF ~db_ok
    THEN [panicked |-> TRUE, table |-> table, classified |-> TRUE,
          merged |-> FALSE, key |-> <<>>]
    ELSE [panicked |-> FALSE,
          table |-> Upsert(table, Task(title), AppName(title), DurationParam,
                           FormatDate(date)),
          classified |-> TRUE, merged |-> TRUE,
          key |-> <<Task(title), AppName(title), FormatDate(date)>>]

\* which unwrap or index of get_process panicked
GetProcessFailure(title) ==
    IF ClassifyPanics(title) THEN "classify" ELSE "db_write"

\* LASTINPUTINFO { cbSize: 8, dwTime: 0 } filled by GetLastInputInfo; when the
\* call fails dwTime keeps its 0, and `_success` is never read
LastInputRead(input_ok, dwTime) == IF input_ok THEN dwTime ELSE U32(0)

\* ------------------------------------------------------- the sample branch
IdleCheckDueEarly(n) == n = IDLE_CHECK_SECS - 1

\* i == IDLE_CHECK_SECS
IdleCheckDue(n) == n = IDLE_CHECK_SECS

IsIdleInclusive(duration) == duration >= IDLE_PERIOD

\* idle = duration > IDLE_PERIOD
IsIdle(duration) == duration > IDLE_PERIOD

ShouldProbeAlways(flag) == TRUE

\* if !idle
ShouldProbe(flag) == ~flag

ShouldRecordAlways(window_pid) == TRUE

\* if window_pid != 0
ShouldRecord(window_pid) == window_pid # 0

\* i += 1
Increment(n) == n + 1

\* The body of the `interval.tick()` branch on the inputs it reads.
\* overflow_checks: whether the build checks integer overflow (a debug build
\* does, a release build wraps).
\* input_ok: whether GetLastInputInfo succeeded (its result is not looked at).
SampleBody(tick_count, dwTime, input_ok, overflow_checks, window_pid, title, pid2, db_ok) ==
    LET i1 == Increment(i)
        due == IdleCheckDue(i1)
        dwRead == LastInputRead(input_ok, dwTime)
        overflow == due /\ overflow_checks /\ SubOverflows(tick_count, dwRead)
        elapsed == get_last_input(tick_count, dwRead)
        idle1 == IF due THEN IsIdle(as_secs(elapsed)) ELSE idle
        i2 == IF due THEN 0 ELSE i1
        probed == ShouldProbe(idle1)
        called == probed /\ ShouldRecord(window_pid)
        gp == get_process(app_usage, title, pid2, db_ok, Dates[today])
    IN  IF overflow
        THEN [panicked |-> TRUE, i |-> i1, idle |-> idle, table |-> app_usage,
              key |-> <<>>,
              turn |-> [NoTurn EXCEPT !.kind = "sample", !.idle_before = idle,
                                      !.query_ok = input_ok,
                                      !.failure = "overflow"]]
        ELSE [panicked |-> called /\ gp.panicked,
              i |-> i2,
              idle |-> idle1,
              table |-> IF called THEN gp.table ELSE app_usage,
              key |-> IF called /\ gp.merged THEN gp.key ELSE <<>>,
              turn |-> [kind |-> "sample", checked |-> due,
                        elapsed |-> IF due THEN elapsed ELSE U32(0),
                        idle_before |-> idle,
                        probed |-> probed,
                        window_pid |-> IF probed THEN window_pid ELSE 0,
                        called |-> called,
                        classified |-> called /\ gp.classified,
                        merged |-> called /\ gp.merged,
                        query_ok |-> (~due) \/ input_ok,
                        failure |-> IF called /\ gp.panicked
                                    THEN GetProcessFailure(title)
                                    ELSE "none"]]

CountMerge(m, key) ==
    IF key = <<>> THEN m
    ELSE IF key \in DOMAIN m THEN [m EXCEPT ![key] = @ + 1]
    ELSE [k \in DOMAIN m \cup {key} |-> IF k = key THEN 1 ELSE m[k]]

\* ---------------------------------------------------------------- renders
\* draw_usage_graph_from_db: reads the totals and draws them; every failure
\* (prepare, query, row, fill, build, draw) is an unwrap, a panic.
draw_usage_graph_from_db(table, read_ok, draw_ok) ==
    IF read_ok /\ draw_ok
    THEN [panicked |-> FALSE, graph |-> get_usage_data_from_db(table),
          failure |-> "none"]
    ELSE [panicked |-> TRUE, graph |-> usage_graph,
          failure |-> IF read_ok THEN "render" ELSE "db_read"]

\* ------------------------------------------------------------- the select
\* MissedTickBehavior::Burst (the default of time::interval): the next
\* deadline is the last one plus the period, whatever the time is now
NextTimeout(timeout, period) == timeout + period

IntervalReady == now >= interval
GraphIntervalReady == now >= graph_interval

\* select! polls its branches from a random one: any ready branch can win.
\* The futures of the turn are dropped when a branch is taken.
SelectSample ==
    /\ pc \in {"select", "waiting"}
    /\ IntervalReady
    /\ pc' = "sample"
    /\ interval' = NextTimeout(interval, SamplePeriod)
    /\ ctrl_c' = "none"
    /\ UNCHANGED <<now, graph_interval, i, idle, app_usage, usage_graph, today,
                   shutdown, lastTurn, merges, table0,
                   finalRenders, ticks, classifierVars, elapsedVars>>

\* a select that runs the snapshot branch and takes a ready sample tick with it
SelectGraphBoth ==
    /\ pc \in {"select", "waiting"}
    /\ GraphIntervalReady
    /\ pc' = "graph"
    /\ graph_interval' = NextTimeout(graph_interval, GraphPeriod)
    /\ interval' = IF IntervalReady THEN NextTimeout(interval, SamplePeriod)
                   ELSE interval
    /\ ctrl_c' = "none"
    /\ UNCHANGED <<now, i, idle, app_usage, usage_graph, today,
                   shutdown, lastTurn, merges, table0,
                   finalRenders, ticks, classifierVars, elapsedVars>>

SelectGraph ==
    /\ pc \in {"select", "waiting"}
    /\ GraphIntervalReady
    /\ pc' = "graph"
    /\ graph_interval' = NextTimeout(graph_interval, GraphPeriod)
    /\ ctrl_c' = "none"
    /\ UNCHANGED <<now, interval, i, idle, app_usage, usage_graph, today,
                   shutdown, lastTurn, merges, table0,
                   finalRenders, ticks, classifierVars, elapsedVars>>

SelectShutdown ==
    /\ pc = "waiting"
    /\ ctrl_c = "notified"
    /\ pc' = "shutdown"
    /\ ctrl_c' = "none"
    /\ UNCHANGED <<now, interval, graph_interval, i, idle, app_usage,
                   usage_graph, today, shutdown, lastTurn,
                   merges, table0, finalRenders, ticks, classifierVars, elapsedVars>>

\* No branch is ready at the first poll: the task waits, and the ctrl_c()
\* future of this turn has registered its listener.
Suspend ==
    /\ pc = "select"
    /\ ~IntervalReady
    /\ ~GraphIntervalReady
    /\ pc' = "waiting"
    /\ ctrl_c' = "armed"
    /\ UNCHANGED <<now, interval, graph_interval, i, idle, app_usage,
                   usage_graph, today, shutdown, lastTurn,
                   merges, table0, finalRenders, ticks, classifierVars, elapsedVars>>

\* --------------------------------------------------------------- the turns
\* seconds recorded since the start
Recorded == SumDuration(app_usage) - SumDuration(table0)

\* what get_last_input reads on this tick (nothing unless it is called): the
\* tick count, the last-input tick, and whether GetLastInputInfo succeeded
TicksNow ==
    IF IdleCheckDue(Increment(i))
    THEN (TickCounts \X LastInputs \X {TRUE}) \cup (TickCounts \X {U32(0)} \X {FALSE})
    ELSE {<<U32(0), U32(0), TRUE>>}

\* the windows the probe of this tick can see
WindowsNow == IF Recorded < MaxMerges THEN Windows ELSE {<<0, <<>> >>}

SampleTick ==
    /\ pc = "sample"
    /\ \E ticks_read \in TicksNow, overflow_checks \in BOOLEAN,
          probe \in WindowsNow, pid2 \in Pids, db_ok \in BOOLEAN :
          \E r \in {SampleBody(ticks_read[1], ticks_read[2], ticks_read[3],
                              overflow_checks, probe[1], probe[2], pid2,
                              db_ok)} :
              /\ pc' = IF r.panicked THEN "panicked" ELSE "select"
              /\ i' = r.i
              /\ idle' = r.idle
              /\ app_usage' = r.table
              /\ lastTurn' = r.turn
              /\ merges' = CountMerge(merges, r.key)
              /\ ticks' = IF r.panicked THEN ticks ELSE ticks + 1
    /\ UNCHANGED <<now, interval, graph_interval, usage_graph, ctrl_c, today,
                   shutdown, table0, finalRenders,
                   classifierVars, elapsedVars>>

GraphTick ==
    /\ pc = "graph"
    /\ \E read_ok \in BOOLEAN, draw_ok \in BOOLEAN :
          \E r \in {draw_usage_graph_from_db(app_usage, read_ok, draw_ok)} :
              /\ pc' = IF r.panicked THEN "panicked" ELSE "select"
              /\ usage_graph' = r.graph
              /\ lastTurn' = [NoTurn EXCEPT !.kind = "graph",
                                            !.idle_before = idle,
                                            !.failure = r.failure]
    /\ UNCHANGED <<now, interval, graph_interval, i, idle, app_usage, ctrl_c,
                   today, shutdown, merges, table0,
                   finalRenders, ticks, classifierVars, elapsedVars>>

ShutdownTick ==
    /\ pc = "shutdown"
    /\ \E read_ok \in BOOLEAN, draw_ok \in BOOLEAN :
          \E r \in {draw_usage_graph_from_db(app_usage, read_ok, draw_ok)} :
              /\ pc' = IF r.panicked THEN "panicked" ELSE "done"
              /\ usage_graph' = r.graph
              /\ finalRenders' = IF r.panicked THEN finalRenders
                                 ELSE finalRenders + 1
              /\ lastTurn' = [NoTurn EXCEPT !.kind = "shutdown",
                                            !.idle_before = idle,
                                            !.failure = r.failure]
    /\ UNCHANGED <<now, interval, graph_interval, i, idle, app_usage, ctrl_c,
                   today, shutdown, merges, table0, ticks,
                   classifierVars, elapsedVars>>

\* --------------------------------------------------------- the environment
\* Ctrl-C while this turn's ctrl_c() future is waiting: the future is woken.
RaiseShutdownHeard ==
    /\ shutdown = "no"
    /\ pc = "waiting"
    /\ ctrl_c = "armed"
    /\ ctrl_c' = "notified"
    /\ shutdown' = pc
    /\ UNCHANGED <<pc, now, interval, graph_interval, i, idle, app_usage,
                   usage_graph, today, lastTurn, merges,
                   table0, finalRenders, ticks, classifierVars, elapsedVars>>

\* Ctrl-C while no ctrl_c() future exists (the futures of a select are dropped
\* when a branch is taken, and are created again at the next select): no
\* listener receives it.  The console's next handler then ends the process,
\* or the signal is discarded.
RaiseShutdownUnheard ==
    /\ shutdown = "no"
    /\ pc \in {"select", "sample", "graph"}
    /\ ctrl_c = "none"
    /\ shutdown' = pc
    /\ pc' \in {"killed", pc}
    /\ UNCHANGED <<now, interval, graph_interval, i, idle, app_usage,
                   usage_graph, ctrl_c, today, lastTurn,
                   merges, table0, finalRenders, ticks, classifierVars, elapsedVars>>

\* Time passes while a turn's work runs, or while the task waits with no
\* timer due; the UTC day can roll over as it passes.
AdvanceTime ==
    /\ \/ pc \in {"sample", "graph", "shutdown"}
       \/ pc = "waiting" /\ ~IntervalReady /\ ~GraphIntervalReady
    /\ now < MaxTime
    /\ now' = now + 1
    /\ \E rollover \in BOOLEAN :
          today' = IF rollover /\ today < Len(Dates) THEN today + 1 ELSE today
    /\ UNCHANGED <<pc, interval, graph_interval, i, idle, app_usage,
                   usage_graph, ctrl_c, shutdown,
                   lastTurn, merges, table0, finalRenders, ticks,
                   classifierVars, elapsedVars>>

Next ==
    \/ SelectSample
    \/ SelectGraph
    \/ SelectShutdown
    \/ Suspend
    \/ SampleTick
    \/ GraphTick
    \/ ShutdownTick
    \/ RaiseShutdownHeard
    \/ RaiseShutdownUnheard
    \/ AdvanceTime

Spec == Init /\ [][Next]_vars

\* ------------------------------------------------ classifier specification
Alphabet == {"a", " ", "-", "|"}

ExampleTitles ==
    { <<"A", " ", "-", " ", "B", " ", "|", " ", "C">>,
      <<"R", "e", "p", "o", "r", "t", ".", "d", "o", "c", "x", " ", "-", " ",
        "N", "o", "t", "e", "p", "a", "d">>,
      <<"M", "y", "A", "p", "p">> }

AllTitles == UNION {[1..n -> Alphabet] : n \in 0..MaxLen} \cup ExampleTitles

ClassifyInit ==
    /\ LoopInit
    /\ app_usage = {}
    /\ window_title \in AllTitles
    /\ labels = NoLabels
    /\ reading = NoReading
    /\ last_input = NoElapsed

\* lines 182-185 of get_process on window_title
Classify ==
    /\ labels.state = "unset"
    /\ labels' = IF ClassifyPanics(window_title)
                 THEN [NoLabels EXCEPT !.state = "panicked"]
                 ELSE [state |-> "done", app_name |-> AppName(window_title),
                       task |-> Task(window_title)]
    /\ UNCHANGED <<loopVars, window_title, elapsedVars>>

ClassifyNext == Classify

ClassifySpec == ClassifyInit /\ [][ClassifyNext]_vars

\* --------------------------------------------- get_last_input on its own
\* tick values: small ones, the idle threshold, and the top of the u32 range
TickValues ==
    {U32(0), U32(1000), U32(31000), U32(32000), <<Half \div 2, 0>>,
     <<Half - 1, Half - 1000>>, U32Max}

\* an input that arrives between GetTickCount() and GetLastInputInfo() is
\* stamped at most this many milliseconds after the tick count read
RaceWindow == 1000

\* how a pair of values can have come about: the last input lies before the
\* tick count ("steady"); the counter has wrapped since the last input
\* ("wrapped"); the input arrived between the two system calls ("raced")
Timings(tick_count, dwTime) ==
    IF ~Lt32(tick_count, dwTime) THEN {"steady"}
    ELSE LET ahead == WrappingSub32(dwTime, tick_count)
         IN  IF ahead[1] = 0 /\ ahead[2] <= RaceWindow
             THEN {"wrapped", "raced"}
             ELSE {"wrapped"}

Readings ==
    UNION {{[tick_count |-> t, dwTime |-> d, overflow_checks |-> c,
             timing |-> w] : c \in BOOLEAN, w \in Timings(t, d)} :
           t \in TickValues, d \in TickValues}

ElapsedInit ==
    /\ LoopInit
    /\ app_usage = {}
    /\ window_title = <<>>
    /\ labels = NoLabels
    /\ reading \in Readings
    /\ last_input = NoElapsed

\* get_last_input on the values of reading
GetLastInput ==
    /\ last_input.state = "unset"
    /\ last_input' =
          IF reading.overflow_checks
               /\ SubOverflows(reading.tick_count, reading.dwTime)
          THEN [NoElapsed EXCEPT !.state = "panicked"]
          ELSE [state |-> "done",
                millis |-> get_last_input(reading.tick_count, reading.dwTime)]
    /\ UNCHANGED <<loopVars, classifierVars, reading>>

ElapsedNext == GetLastInput

ElapsedSpec == ElapsedInit /\ [][ElapsedNext]_vars

\* ================================================================== claims
\* a step that runs the body of the sample branch
SampleStep == pc = "sample" /\ pc' \in {"select", "panicked"}

\* C1: on every sample tick that leaves the idle flag true, the window is not
\* probed and nothing is merged: the table is unchanged by the tick.
C1_IdleExclusion ==
    [][(SampleStep /\ idle') =>
          /\ app_usage' = app_usage
          /\ merges' = merges
          /\ ~lastTurn'.probed
          /\ ~lastTurn'.merged]_vars

\* an idle tick with no re-evaluation has run on a table that holds records
C1_Witness ==
    /\ pc = "select"
    /\ lastTurn.kind = "sample"
    /\ ~lastTurn.checked
    /\ idle
    /\ Recorded > 0

InitialKeys == {Key(row) : row \in table0}

\* C2: a key with no record at start that has been merged N >= 1 times has
\* exactly one record, of duration N.
C2_Accumulation ==
    \A key \in DOMAIN merges :
        key \notin InitialKeys =>
            LET rows == {row \in app_usage : Key(row) = key}
            IN  /\ Cardinality(rows) = 1
                /\ \A row \in rows : row.duration = merges[key]

\* a key new at start has been merged more than once
C2_Witness ==
    \E key \in DOMAIN merges : key \notin InitialKeys /\ merges[key] >= 2

\* C3: an active sample tick whose probe returns pid 0 leaves the table
\* unchanged, does not classify, and returns to the select.
C3_ZeroPidSkip ==
    [][(SampleStep /\ lastTurn'.probed /\ lastTurn'.window_pid = 0) =>
          /\ app_usage' = app_usage
          /\ ~lastTurn'.classified
          /\ pc' = "select"]_vars

\* an active tick probed pid 0 on a table that holds records
C3_Witness ==
    /\ pc = "select"
    /\ lastTurn.kind = "sample"
    /\ lastTurn.probed
    /\ lastTurn.window_pid = 0
    /\ Recorded > 0

\* C4: when Ctrl-C was raised while the body of a sample tick was running, the
\* process does not end without exactly one final render, of the table as it is.
C4_ShutdownFinality ==
    (shutdown = "sample" /\ pc \in Terminated) =>
        /\ finalRenders = 1
        /\ usage_graph = get_usage_data_from_db(app_usage)

\* C5: once Ctrl-C has been raised, wherever the loop was, the process does
\* not end without having completed the final render.
C5_CancellationLiveness ==
    (shutdown # "no" /\ pc \in Terminated) => (pc = "done" /\ finalRenders = 1)

\* C6: a select that has received Ctrl-C takes the shutdown branch, also when
\* a timer is ready with it.
C6_ShutdownTurnNext ==
    [][(pc = "waiting" /\ ctrl_c = "notified" /\ pc' # pc) =>
          pc' = "shutdown"]_vars

\* C7: the idle flag starts false; between turns 0 <= i < IDLE_CHECK_SECS and
\* i counts the sample ticks modulo IDLE_CHECK_SECS; only a sample tick
\* changes i; the idle query runs exactly on every IDLE_CHECK_SECS-th sample
\* tick, and the idle flag changes on no other step.
C7_IdleCadence ==
    /\ (idle = FALSE /\ i = 0)
    /\ [](pc # "panicked" =>
            (0 <= i /\ i < IDLE_CHECK_SECS /\ i = ticks % IDLE_CHECK_SECS))
    /\ [][/\ (SampleStep /\ pc' = "select") =>
                /\ ticks' = ticks + 1
                /\ i' = (i + 1) % IDLE_CHECK_SECS
                /\ lastTurn'.checked <=> (ticks' % IDLE_CHECK_SECS = 0)
          /\ (i' # i) => SampleStep
          /\ (idle' # idle) => (SampleStep /\ lastTurn'.checked)]_vars

\* the second idle check, on the tenth sample tick
C7_Witness ==
    /\ lastTurn.kind = "sample"
    /\ lastTurn.checked
    /\ ticks = 2 * IDLE_CHECK_SECS
    /\ i = 0

\* C8 as stated: after an idle check the flag is set exactly when the elapsed
\* milliseconds exceed 30 s (30000 ms).
C8_IdleThresholdMillis ==
    lastTurn.checked =>
        (idle <=> Lt32(U32(IDLE_PERIOD * MillisPerSec), lastTurn.elapsed))

\* C8 amended: after an idle check the flag is set exactly when the whole
\* seconds of the elapsed time exceed 30, that is from 31000 ms on, whatever
\* the flag was before.
C8_IdleThresholdSeconds ==
    lastTurn.checked =>
        (idle <=> ~Lt32(lastTurn.elapsed, U32((IDLE_PERIOD + 1) * MillisPerSec)))

\* an idle check has turned an idle loop active again
C8_Witness ==
    /\ lastTurn.kind = "sample"
    /\ lastTurn.checked
    /\ lastTurn.idle_before
    /\ ~idle

\* ---- the classifier, stated on positions of the title
Delimiters == {"-", "|"}
DelimAt(title) == {k \in 1..Len(title) : title[k] \in Delimiters}
MaxOf(S) == CHOOSE k \in S : \A j \in S : j <= k
MinOf(S) == CHOOSE k \in S : \A j \in S : k <= j

\* s without its leading and trailing blanks
Strip(s) ==
    LET solid == {k \in 1..Len(s) : s[k] # " "}
    IN  IF solid = {} THEN <<>> ELSE SubSeq(s, MinOf(solid), MaxOf(solid))

\* the n-th delimiter position of the title (0 before the first)
NthDelim(title, n) ==
    IF n = 0 THEN 0
    ELSE CHOOSE k \in DelimAt(title) :
            Cardinality({j \in DelimAt(title) : j <= k}) = n

\* the n-th segment, n in 1..(delimiters + 1)
Segment(title, n) ==
    LET from == NthDelim(title, n - 1) + 1
        to == IF n > Cardinality(DelimAt(title)) THEN Len(title)
              ELSE NthDelim(title, n) - 1
    IN  SubSeq(title, from, to)

SegmentCount(title) == Cardinality(DelimAt(title)) + 1

RECURSIVE JoinTrimmed(_, _)
\* the first n segments, each trimmed, joined with " - "
JoinTrimmed(title, n) ==
    IF n = 0 THEN <<>>
    ELSE IF n = 1 THEN Strip(Segment(title, 1))
    ELSE JoinTrimmed(title, n - 1) \o <<" ", "-", " ">> \o Strip(Segment(title, n))

\* C9: the task label is the segments before the last one, each trimmed,
\* joined with " - " and trimmed; empty when there is one segment.
C9_TaskLabel ==
    labels.state # "unset" =>
        /\ labels.state = "done"
        /\ labels.task = Strip(JoinTrimmed(window_title, SegmentCount(window_title) - 1))

\* the last trimmed segment that is not empty, or the empty string
LastNonEmpty(title) ==
    LET full == {n \in 1..SegmentCount(title) : Strip(Segment(title, n)) # <<>>}
    IN  IF full = {} THEN <<>> ELSE Strip(Segment(title, MaxOf(full)))

\* C10 as stated: the classifier never fails, and the application label is the
\* last non-empty trimmed segment (empty only when there is none).
C10_AppLabelLastNonEmpty ==
    labels.state # "unset" =>
        /\ labels.state = "done"
        /\ labels.app_name = LastNonEmpty(window_title)

\* C10 amended: the classifier never fails, and the application label is the
\* trimmed text after the last delimiter (the whole title when there is no
\* delimiter), empty or not.
C10_AppLabelLastSegment ==
    labels.state # "unset" =>
        /\ labels.state = "done"
        /\ labels.app_name = Strip(Segment(window_title, SegmentCount(window_title)))

\* a title with a non-empty segment that ends in a delimiter and a blank has
\* been classified
C10_Witness ==
    /\ labels.state = "done"
    /\ window_title = <<"a", " ", "-", " ">>
    /\ labels.app_name = <<>>

\* the keys merged so far that differ from key in the day only
OtherDays(key) ==
    {other \in DOMAIN merges :
        other[1] = key[1] /\ other[2] = key[2] /\ other[3] # key[3]}

\* C11: the same (task, application) merged on two different days has two
\* distinct records, one per day, each holding only its own day's merges
\* (duration 1 after one merge each); and a merge leaves every record of
\* another day exactly as it was.
C11_DayBoundaryIsolation ==
    /\ [](\A key \in DOMAIN merges : \A other \in OtherDays(key) :
            (key \notin InitialKeys /\ other \notin InitialKeys) =>
                \E r1, r2 \in app_usage :
                    /\ r1 # r2
                    /\ Key(r1) = key /\ r1.duration = merges[key]
                    /\ Key(r2) = other /\ r2.duration = merges[other])
    /\ [][(SampleStep /\ lastTurn'.merged) =>
            \A row \in app_usage :
                row.usage_date # FormatDate(Dates[today]) =>
                    row \in app_usage']_vars

\* one merge on each of two days for the same task and application
C11_Witness ==
    \E key \in DOMAIN merges : \E other \in OtherDays(key) :
        /\ key \notin InitialKeys /\ other \notin InitialKeys
        /\ merges[key] = 1 /\ merges[other] = 1
        /\ \E r1, r2 \in app_usage :
              /\ Key(r1) = key /\ r1.duration = 1
              /\ Key(r2) = other /\ r2.duration = 1

\* a turn that renders: the snapshot tick or the shutdown turn, completed
RenderStep == pc \in {"graph", "shutdown"} /\ pc' \in {"select", "done"}

\* the duration the table held at start under a key
InitialDuration(key) ==
    IF key \in InitialKeys
    THEN (CHOOSE row \in table0 : Key(row) = key).duration
    ELSE 0

\* the merges completed so far under a key
MergeCount(key) == IF key \in DOMAIN merges THEN merges[key] ELSE 0

RECURSIVE SumOver(_, _)
\* the sum of f over a finite set
SumOver(set, f) ==
    IF set = {} THEN 0
    ELSE LET x == CHOOSE y \in set : TRUE
         IN  f[x] + SumOver(set \ {x}, f)

\* every key that has a record: those present at start and those merged
KnownKeys == InitialKeys \cup DOMAIN merges

\* what a render must show for a label: everything stored at start plus every
\* completed merge, over all tasks and days of that label
ExpectedTotal(app) ==
    LET keys == {key \in KnownKeys : key[2] = app}
    IN  SumOver(keys, [key \in keys |-> InitialDuration(key) + MergeCount(key)])

\* C12: a completed render shows exactly the labels that have a record, each
\* with the sum of the durations of all its records over all tasks and days
\* (every completed merge counted in full, none in part); on a table that
\* started empty the totals shown add up to the number of merges.
C12_SnapshotConsistency ==
    [][RenderStep =>
          LET apps == {key[2] : key \in KnownKeys}
          IN  /\ DOMAIN usage_graph' = apps
              /\ \A app \in apps : usage_graph'[app] = ExpectedTotal(app)
              /\ table0 = {} =>
                    SumOver(apps, usage_graph')
                      = SumOver(DOMAIN merges, merges)]_vars

\* a snapshot tick has rendered a label that has several records, after merges
C12_Witness ==
    /\ pc = "select"
    /\ lastTurn.kind = "graph"
    /\ lastTurn.failure = "none"
    /\ Recorded >= 2
    /\ \E r1, r2 \in app_usage : r1 # r2 /\ r1.app_name = r2.app_name
    /\ \A app \in DOMAIN usage_graph : usage_graph[app] = ExpectedTotal(app)

\* the select hands the turn to one branch
TurnStart ==
    pc \in {"select", "waiting"} /\ pc' \in {"sample", "graph", "shutdown"}

\* the body of the snapshot branch has run
GraphStep == pc = "graph" /\ pc' \in {"select", "panicked"}

\* the body of the shutdown branch has run
ShutdownStep == pc = "shutdown" /\ pc' \in {"done", "panicked"}

\* C13: every turn does the work of exactly one branch. The select consumes
\* the one event of the branch it takes and leaves the other sources as they
\* were, also when several are ready; a sample turn draws nothing and merges
\* at most one record; a snapshot or shutdown turn samples and merges nothing;
\* and the work a turn records is that of the branch that was taken.
C13_OneKindOfWorkPerTurn ==
    [][/\ TurnStart =>
            /\ (pc' = "sample") =>
                  (interval' # interval /\ graph_interval' = graph_interval)
            /\ (pc' = "graph") =>
                  (graph_interval' # graph_interval /\ interval' = interval)
            /\ (pc' = "shutdown") =>
                  (interval' = interval /\ graph_interval' = graph_interval)
       /\ SampleStep =>
            /\ usage_graph' = usage_graph
            /\ finalRenders' = finalRenders
            /\ ticks' \in {ticks, ticks + 1}
            /\ SumOver(DOMAIN merges', merges')
                  <= SumOver(DOMAIN merges, merges) + 1
       /\ (GraphStep \/ ShutdownStep) =>
            /\ app_usage' = app_usage
            /\ merges' = merges
            /\ ticks' = ticks
            /\ i' = i
            /\ idle' = idle
       /\ GraphStep => finalRenders' = finalRenders
       /\ (lastTurn' # lastTurn) => lastTurn'.kind = pc]_vars

\* the snapshot branch runs alone while a sample tick is ready, after merges
C13_Witness ==
    /\ pc = "graph"
    /\ IntervalReady
    /\ Recorded > 0

\* C14: ticks are not buffered. When the select takes a sample tick, no
\* deadline of the 1 s interval that already lies in the past stays queued to
\* fire right after it: the next sample tick is due no earlier than now.
C14_TicksNotBuffered ==
    [][(TurnStart /\ pc' = "sample") => interval' >= now]_vars

\* C15: a persistence failure does not end the loop. After a turn in which
\* the upsert of a merge or the read of the totals failed, the loop has not
\* terminated by a panic.
C15_PersistenceFailureNotFatal ==
    lastTurn.failure \in {"db_write", "db_read"} => pc # "panicked"

\* C16: a render failure is not fatal. After a snapshot tick whose drawing
\* failed the loop is back at its select with the table as it was, and has
\* not terminated.
C16_RenderFailureNotFatal ==
    [][(pc = "graph" /\ lastTurn'.kind = "graph"
          /\ lastTurn'.failure = "render") =>
            (pc' = "select" /\ app_usage' = app_usage)]_vars

\* C17: a probe failure costs exactly one tick. After a sample tick whose
\* window probe failed (pid 0) or whose idle query failed, the loop has not
\* panicked and the tick merged nothing; and a failed idle query has not put
\* an ACTIVE loop in IDLE.
C17_ProbeFailureCostsOneTick ==
    lastTurn.kind = "sample" =>
        /\ (lastTurn.probed /\ lastTurn.window_pid = 0) =>
              (pc # "panicked" /\ ~lastTurn.merged)
        /\ (lastTurn.checked /\ ~lastTurn.query_ok) =>
              /\ pc # "panicked"
              /\ ~lastTurn.merged
              /\ idle => lastTurn.idle_before

\* new differs from old in the record of one key only: that record is new with
\* the duration of one merge, or it has grown by the duration of one merge
OneKeyPlusOne(old, new) ==
    \E r2 \in new \ old :
        /\ new \ old = {r2}
        /\ \/ /\ old \ new = {}
              /\ r2.duration = 1
              /\ \A r1 \in old : Key(r1) # Key(r2)
           \/ \E r1 \in old \ new :
                 /\ old \ new = {r1}
                 /\ Key(r1) = Key(r2)
                 /\ r2.duration = r1.duration + 1

\* C18: records are monotone. No step deletes a record or lowers a duration;
\* a merging sample tick changes the record of its own key only, by exactly
\* +1; every other step (snapshot and shutdown turns included) leaves the
\* table as it was.
C18_RecordMonotonicity ==
    [][/\ \A r1 \in app_usage : \E r2 \in app_usage' :
            Key(r2) = Key(r1) /\ r2.duration >= r1.duration
       /\ (SampleStep /\ lastTurn'.merged) =>
            OneKeyPlusOne(app_usage, app_usage')
       /\ ~(SampleStep /\ lastTurn'.merged) => app_usage' = app_usage]_vars

\* a merge has grown an existing record while other records were present
C18_Witness ==
    /\ lastTurn.kind = "sample"
    /\ lastTurn.merged
    /\ Cardinality(app_usage) >= 2
    /\ \E row \in app_usage :
          /\ Key(row) \notin InitialKeys
          /\ row.duration >= 2
          /\ MergeCount(Key(row)) = row.duration

\* a + b modulo 2^32
Add32(a, b) ==
    LET carry == IF a[2] + b[2] >= Half THEN 1 ELSE 0
    IN  <<(a[1] + b[1] + carry) % Half, (a[2] + b[2]) % Half>>

\* C19: for every pair of 32-bit values get_last_input returns, without a
\* panic, the time since the last input: the tick count is the last-input
\* tick plus the value returned (also across a wrap of the counter), and an
\* input stamped after the tick count was read, which has just happened, is
\* not reported as older than the idle threshold.
C19_ElapsedArithmetic ==
    last_input.state # "unset" =>
        /\ last_input.state = "done"
        /\ reading.timing \in {"steady", "wrapped"} =>
              Add32(reading.dwTime, last_input.millis) = reading.tick_count
        /\ reading.timing = "raced" => ~IsIdle(as_secs(last_input.millis))

\* C20: one probe per active tick decides the merge. After a sample tick that
\* probed the window and met no failure, a merge has happened exactly when
\* the pid returned by the loop's probe is not 0.
C20_OneProbeDecides ==
    (lastTurn.kind = "sample" /\ lastTurn.probed /\ lastTurn.failure = "none")
        => (lastTurn.merged <=> lastTurn.window_pid # 0)

====
